---------------------------- MODULE Spec2Model ----------------------------
(***************************************************************************)
(* The LCOE calculation engine (calculator module: calculateCAPEX,         *)
(* calculateEMI_likeExcel, calculateTotalOM, calculateTotalEnergy,         *)
(* calculateNPVlikeExcel, calculateCUE, calculateLCOE) as a state machine. *)
(*                                                                         *)
(* JavaScript numbers are modelled as extended rationals <<n, d>>:         *)
(*   d > 0  : the finite value n/d in lowest terms,                        *)
(*   <<1,0>>: +Infinity,  <<-1,0>>: -Infinity,  <<0,0>>: NaN.              *)
(* Arithmetic follows IEEE-754 for the non-finite cases (x/0, Inf-Inf,     *)
(* 0*Inf, comparisons with NaN); finite arithmetic is exact, so binary     *)
(* rounding is abstracted away, and zero is unsigned (no input of the      *)
(* model is -0 and no divisor of the engine can become -0).                *)
(***************************************************************************)
EXTENDS Integers, Sequences, FiniteSets, TLC

-----------------------------------------------------------------------------
(* JavaScript number arithmetic *)

Abs(n) == IF n < 0 THEN -n ELSE n

Sgn(n) == IF n > 0 THEN 1 ELSE IF n < 0 THEN -1 ELSE 0

RECURSIVE GCD(_, _)
GCD(a, b) == IF b = 0 THEN a ELSE GCD(b, a % b)

NaN == <<0, 0>>

Infinity(s) == <<Sgn(s), 0>>

\* the number n/d in lowest terms with a positive denominator; n/0 as IEEE
Num(n, d) ==
    IF d = 0 THEN Infinity(n)
    ELSE LET g == GCD(Abs(n), Abs(d))
         IN  <<Sgn(d) * (n \div g), Abs(d) \div g>>

Lit(n) == <<n, 1>>

IsNaN(x) == x = NaN

IsFinite(x) == x[2] > 0

Sign(x) == Sgn(x[1])

\* x + y
Add(x, y) ==
    IF IsNaN(x) \/ IsNaN(y) THEN NaN
    ELSE IF ~IsFinite(x) /\ ~IsFinite(y) THEN (IF x = y THEN x ELSE NaN)
    ELSE IF ~IsFinite(x) THEN x
    ELSE IF ~IsFinite(y) THEN y
    ELSE LET g == GCD(x[2], y[2])
         IN  Num(x[1] * (y[2] \div g) + y[1] * (x[2] \div g), (x[2] \div g) * y[2])

Neg(x) == <<-x[1], x[2]>>

\* x - y
Sub(x, y) == Add(x, Neg(y))

\* Math.abs(x)
MathAbs(x) == <<Abs(x[1]), x[2]>>

\* x * y
Mul(x, y) ==
    IF IsNaN(x) \/ IsNaN(y) THEN NaN
    ELSE IF ~IsFinite(x) \/ ~IsFinite(y)
         THEN (IF Sign(x) = 0 \/ Sign(y) = 0 THEN NaN ELSE Infinity(Sign(x) * Sign(y)))
    ELSE LET g1 == GCD(Abs(x[1]), y[2])
             g2 == GCD(Abs(y[1]), x[2])
         IN  Num((x[1] \div g1) * (y[1] \div g2), (x[2] \div g2) * (y[2] \div g1))

\* x / y
Div(x, y) ==
    IF IsNaN(x) \/ IsNaN(y) THEN NaN
    ELSE IF ~IsFinite(x) THEN (IF ~IsFinite(y) THEN NaN
                               ELSE Infinity(Sign(x) * (IF Sign(y) < 0 THEN -1 ELSE 1)))
    ELSE IF ~IsFinite(y) THEN Lit(0)
    ELSE IF Sign(y) = 0 THEN (IF Sign(x) = 0 THEN NaN ELSE Infinity(Sign(x)))
    ELSE Mul(x, Num(y[2], y[1]))

\* x < y  (false when either is NaN)
LT(x, y) ==
    /\ ~IsNaN(x)
    /\ ~IsNaN(y)
    /\ x # y
    /\ IF ~IsFinite(x) THEN Sign(x) < 0
       ELSE IF ~IsFinite(y) THEN Sign(y) > 0
       ELSE LET g == GCD(x[2], y[2])
            IN  x[1] * (y[2] \div g) < y[1] * (x[2] \div g)

\* x > y
GT(x, y) == LT(y, x)

\* x <= y
LE(x, y) == LT(x, y) \/ (~IsNaN(x) /\ x = y)

\* Math.min(x, y) and Math.max(x, y): NaN when either is NaN
MathMin(x, y) == IF IsNaN(x) \/ IsNaN(y) THEN NaN ELSE IF LT(y, x) THEN y ELSE x

MathMax(x, y) == IF IsNaN(x) \/ IsNaN(y) THEN NaN ELSE IF GT(y, x) THEN y ELSE x

\* Math.pow(x, k) for an integer k >= 0
RECURSIVE Pow(_, _)
Pow(x, k) == IF k = 0 THEN Lit(1) ELSE Mul(Pow(x, k - 1), x)

\* the number of passes of  for (let i = 0; i < years; i++)  (years finite or NaN)
RECURSIVE Passes(_, _)
Passes(years, i) == IF LT(Lit(i), years) THEN Passes(years, i + 1) ELSE i

-----------------------------------------------------------------------------
(* Configuration of the engine *)

hours_in_year == 8760

opex_escalation_rate == Num(5, 100)

degradation_rate == Num(5, 1000)

-----------------------------------------------------------------------------
(* Core calculation functions *)

\* fault variant of calculateCAPEX: the product of the doc comment
calculateCAPEXProduct(capacity, capex_per_mw) == Mul(capacity, capex_per_mw)

calculateCAPEX(capacity, capex_per_mw) == Div(capex_per_mw, capacity)

calculateEMI_likeExcel(principal, annual_rate, years) ==
    LET r == Div(annual_rate, Lit(100))
    IN  Mul(principal, r)

\* fault variant of EscalatedOpex: the year index is not applied
UnescalatedOpex(annual_opex, i) == annual_opex

\* annual_opex * Math.pow(1 + opex_escalation_rate, i)
EscalatedOpex(annual_opex, i) ==
    Mul(annual_opex, Pow(Add(Lit(1), opex_escalation_rate), i))

RECURSIVE TotalOMLoop(_, _, _, _)
TotalOMLoop(annual_opex, years, i, total) ==
    IF LT(Lit(i), years)
    THEN TotalOMLoop(annual_opex, years, i + 1, Add(total, EscalatedOpex(annual_opex, i)))
    ELSE total

calculateTotalOM(annual_opex, years) == TotalOMLoop(annual_opex, years, 0, Lit(0))

\* fault variant of DegradedEnergy: the rate is added instead of subtracted
GrowingEnergy(annual_energy, i) ==
    Mul(annual_energy, Pow(Add(Lit(1), degradation_rate), i))

\* annual_energy * Math.pow(1 - degradation_rate, i)
DegradedEnergy(annual_energy, i) ==
    Mul(annual_energy, Pow(Sub(Lit(1), degradation_rate), i))

RECURSIVE TotalEnergyLoop(_, _, _, _)
TotalEnergyLoop(annual_energy, years, i, total) ==
    IF LT(Lit(i), years)
    THEN TotalEnergyLoop(annual_energy, years, i + 1,
                         Add(total, DegradedEnergy(annual_energy, i)))
    ELSE total

calculateTotalEnergy(annual_energy, years) ==
    TotalEnergyLoop(annual_energy, years, 0, Lit(0))

\* fault variant of Unshift: the zero is not placed in front (as in calculateNPV)
UnshiftOmitted(cash_flows) == cash_flows

\* the array after cash_flows.unshift(0.0): the caller's array itself is changed
Unshift(cash_flows) == <<Lit(0)>> \o cash_flows

\* cash_flows[t] / Math.pow(1 + rate, t + 1), t the 0-based index
PresentValue(rate, cash_flows, t) ==
    Div(cash_flows[t + 1], Pow(Add(Lit(1), rate), t + 1))

RECURSIVE NPVLoop(_, _, _, _)
NPVLoop(rate, cash_flows, t, npv) ==
    IF t < Len(cash_flows)
    THEN NPVLoop(rate, cash_flows, t + 1, Add(npv, PresentValue(rate, cash_flows, t)))
    ELSE npv

\* returns the value and the state in which it leaves its argument array
calculateNPVlikeExcel(discount_rate, cash_flows) ==
    LET rate     == Div(discount_rate, Lit(100))
        shifted  == Unshift(cash_flows)
    IN  [npv |-> NPVLoop(rate, shifted, 0, Lit(0)), cash_flows |-> shifted]

\* fault variant: a utilization above 1 is clipped to 1
calculateCUEClipped(annual_energy, capacity) ==
    IF capacity = Lit(0) THEN Lit(0)
    ELSE MathMin(Lit(1), Div(annual_energy, Mul(capacity, Lit(hours_in_year))))

calculateCUE(annual_energy, capacity) ==
    IF capacity = Lit(0) THEN Lit(0)
    ELSE Div(annual_energy, Mul(capacity, Lit(hours_in_year)))

-----------------------------------------------------------------------------
(* calculateLCOE *)

\* om_year + emi_year of one pass of the cash-flow loop
CashFlowOfYear(annual_opex, annual_emi, loan_tenure, year) ==
    LET om_year  == EscalatedOpex(annual_opex, year)
        emi_year == IF LT(Lit(year), loan_tenure) THEN annual_emi ELSE Lit(0)
    IN  Add(om_year, emi_year)

RECURSIVE CashFlowLoop(_, _, _, _, _, _)
CashFlowLoop(annual_opex, annual_emi, loan_tenure, project_lifetime, year, cash_flows) ==
    IF LT(Lit(year), project_lifetime)
    THEN CashFlowLoop(annual_opex, annual_emi, loan_tenure, project_lifetime, year + 1,
                      Append(cash_flows,
                             CashFlowOfYear(annual_opex, annual_emi, loan_tenure, year)))
    ELSE cash_flows

\* the array built by Step 5, before it is handed to calculateNPVlikeExcel
AssembleCashFlows(annual_opex, annual_emi, loan_tenure, project_lifetime) ==
    CashFlowLoop(annual_opex, annual_emi, loan_tenure, project_lifetime, 0, << >>)

\* fault variant of EnergyIsPositive: the guard tests  total_energy !== 0
EnergyIsNonzero(total_energy) == ~IsNaN(total_energy) /\ total_energy # Lit(0)

\* the guard of Step 8
EnergyIsPositive(total_energy) == GT(total_energy, Lit(0))

\* fault variant of LcoeMwh: the capital cost is left out of the numerator
LcoeMwhWithoutCapex(capex, npv_opex, total_energy) ==
    IF EnergyIsPositive(total_energy) THEN Div(npv_opex, total_energy) ELSE Lit(0)

LcoeMwh(capex, npv_opex, total_energy) ==
    IF EnergyIsPositive(total_energy)
    THEN Div(Add(capex, npv_opex), total_energy)
    ELSE Lit(0)

\* fault variant of LcoeKwh: the unit factor is 100
LcoeKwhPerHundred(lcoe_mwh) == Div(lcoe_mwh, Lit(100))

LcoeKwh(lcoe_mwh) == Div(lcoe_mwh, Lit(1000))

\* annual_emi * loan_tenure
TotalLoan(annual_emi, loan_tenure) == Mul(annual_emi, loan_tenure)

\* fault variant of TotalOpex: the loan repayment is left out
TotalOpexWithoutLoan(total_om, total_loan) == total_om

\* total_om + total_loan
TotalOpex(total_om, total_loan) == Add(total_om, total_loan)

\* the locals of one invocation, as they stand at the return statement
Locals(inputs) ==
    LET capex       == calculateCAPEX(inputs.capacity, inputs.capex_per_mw)
        energy_generation_per_year == Div(inputs.energy_generation, inputs.capacity)
        annual_opex == Div(Mul(capex, inputs.opex_percent), Lit(100))
        annual_emi  == calculateEMI_likeExcel(capex, inputs.interest_rate, inputs.loan_tenure)
        total_om    == calculateTotalOM(annual_opex, inputs.project_lifetime)
        total_loan  == TotalLoan(annual_emi, inputs.loan_tenure)
        total_opex  == TotalOpex(total_om, total_loan)
        assembled   == AssembleCashFlows(annual_opex, annual_emi, inputs.loan_tenure,
                                         inputs.project_lifetime)
        npv_call    == calculateNPVlikeExcel(inputs.discount_rate, assembled)
        npv_opex    == npv_call.npv
        cash_flows  == npv_call.cash_flows
        total_energy == calculateTotalEnergy(energy_generation_per_year,
                                             inputs.project_lifetime)
        lcoe_mwh    == LcoeMwh(capex, npv_opex, total_energy)
        lcoe_kwh    == LcoeKwh(lcoe_mwh)
        cue         == calculateCUE(inputs.energy_generation, inputs.capacity)
    IN  [capex |-> capex, annual_opex |-> annual_opex, annual_emi |-> annual_emi,
         total_om |-> total_om, total_loan |-> total_loan, total_opex |-> total_opex,
         npv_opex |-> npv_opex, total_energy |-> total_energy,
         lcoe_mwh |-> lcoe_mwh, lcoe_kwh |-> lcoe_kwh, cue |-> cue,
         cash_flows |-> cash_flows, assembled |-> assembled]

\* the object returned by calculateLCOE
calculateLCOE(inputs) ==
    LET l == Locals(inputs)
    IN  [capex |-> l.capex, annual_opex |-> l.annual_opex, annual_emi |-> l.annual_emi,
         total_om |-> l.total_om, total_loan |-> l.total_loan,
         total_opex |-> l.total_opex, npv_opex |-> l.npv_opex,
         total_energy |-> l.total_energy, lcoe_mwh |-> l.lcoe_mwh,
         lcoe_kwh |-> l.lcoe_kwh, cue |-> l.cue, cash_flows |-> l.cash_flows]

\* the divisors calculateLCOE has divided by when it returns
Divisors(inputs) ==
    {"capacity"} \cup
    (IF EnergyIsPositive(Locals(inputs).total_energy) THEN {"total_energy"} ELSE {})

\* the lines calculateLCOE writes with console.log: seven around Step 1 and
\* one in each pass of the cash-flow loop
LogLines(inputs) == 7 + Passes(inputs.project_lifetime, 0)

-----------------------------------------------------------------------------
(* The input records the engine is called with *)

MaxLifetime == 2

MaxTenure == 3

CapacityValues == {Lit(-1), Lit(0), Lit(1), Lit(2)}

EnergyValues == {Lit(0), Lit(40000)}

CapexValues == {Lit(0), Lit(5000000)}

OpexPercentValues == {Lit(0), Lit(10)}

InterestRateValues == {Lit(0), Lit(10)}

TenureValues == {Lit(n) : n \in 0..MaxTenure}

LifetimeValues == {Lit(n) : n \in -1..MaxLifetime}

DiscountRateValues == {Lit(0), Lit(25), Lit(100)}

InputValues ==
    [capacity |-> CapacityValues, energy_generation |-> EnergyValues,
     capex_per_mw |-> CapexValues, opex_percent |-> OpexPercentValues,
     interest_rate |-> InterestRateValues, loan_tenure |-> TenureValues,
     project_lifetime |-> LifetimeValues, discount_rate |-> DiscountRateValues]

InputRecords ==
    [capacity : CapacityValues, energy_generation : EnergyValues,
     capex_per_mw : CapexValues, opex_percent : OpexPercentValues,
     interest_rate : InterestRateValues, loan_tenure : TenureValues,
     project_lifetime : LifetimeValues, discount_rate : DiscountRateValues]

-----------------------------------------------------------------------------
(* State *)

VARIABLES
    inputs,     \* the input record of the current invocation
    pc,         \* "called": calculateLCOE entered; "returned": it has returned
    result,     \* the object the invocation returned (NoResult before it returns)
    divided,    \* the divisors the invocation has divided by
    console,    \* the number of lines written with console.log
    range,      \* generateSensitivityAnalysis: its min_rate, max_rate and step
    rate,       \* generateSensitivityAnalysis: the loop variable
    results,    \* generateSensitivityAnalysis: the array it builds
    variance,   \* plotTornado: its variance_percent
    impacts,    \* plotTornado: the array it builds and sorts
    frames,     \* concurrent invocations: the frame of each worker
    heap,       \* concurrent invocations: the arrays allocated so far
    completed,  \* concurrent invocations: the calls that have returned
    npv_rate,   \* repeated discounting: the discount rate of the calls
    npv_flows,  \* repeated discounting: the array passed to each call
    npvs,       \* repeated discounting: the values the calls have returned
    form,       \* page: the text in each input field
    lastResults,        \* page: UI.lastResults
    autoUpdateCharts,   \* page: UI.autoUpdateCharts
    outputs,    \* page: the figures written to the output fields
    shown,      \* page: the input record each view was last drawn from
    charts,     \* page: the chart slots of Charts, AdvancedCharts and RangeCharts
    live,       \* page: per slot, the chart instances created and not destroyed
    download    \* page: what the latest UI.downloadCSV did

sweepVars == <<range, rate, results>>

tornadoVars == <<variance, impacts>>

workerVars == <<frames, heap, completed>>

npvVars == <<npv_rate, npv_flows, npvs>>

uiVars == <<form, lastResults, autoUpdateCharts, outputs, shown, charts, live, download>>

vars ==
    <<inputs, pc, result, divided, console, sweepVars, tornadoVars, workerVars, npvVars,
      uiVars>>

NoResult == [pending |-> TRUE]

\* no sweep is running
NoSweep ==
    /\ range = [min_rate |-> NaN, max_rate |-> NaN, step |-> NaN]
    /\ rate = NaN
    /\ results = <<>>

\* no tornado diagram is being plotted
NoTornado ==
    /\ variance = NaN
    /\ impacts = <<>>

\* no worker runs the engine
NoWorkers ==
    /\ frames = <<>>
    /\ heap = <<>>
    /\ completed = {}

\* no array is being discounted
NoNpv ==
    /\ npv_rate = NaN
    /\ npv_flows = <<>>
    /\ npvs = <<>>

\* no page is loaded
NoUI ==
    /\ form = <<>>
    /\ lastResults = <<>>
    /\ autoUpdateCharts = FALSE
    /\ outputs = <<>>
    /\ shown = <<>>
    /\ charts = <<>>
    /\ live = <<>>
    /\ download = "none"

Init ==
    /\ inputs \in InputRecords
    /\ pc = "called"
    /\ result = NoResult
    /\ divided = {}
    /\ console = 0
    /\ NoSweep
    /\ NoTornado
    /\ NoWorkers
    /\ NoNpv
    /\ NoUI

\* calculateLCOE(inputs) runs from entry to its return statement
Return ==
    /\ pc = "called"
    /\ pc' = "returned"
    /\ result' = calculateLCOE(inputs)
    /\ divided' = Divisors(inputs)
    /\ console' = LogLines(inputs)
    /\ UNCHANGED <<inputs, sweepVars, tornadoVars, workerVars, npvVars, uiVars>>

\* a collaborator overrides one field of the record and calls the engine again
Override ==
    /\ pc = "returned"
    /\ \E key \in DOMAIN InputValues :
         \E value \in InputValues[key] :
            inputs' = [inputs EXCEPT ![key] = value]
    /\ pc' = "called"
    /\ result' = NoResult
    /\ divided' = {}
    /\ console' = 0
    /\ UNCHANGED <<sweepVars, tornadoVars, workerVars, npvVars, uiVars>>

Next == Return \/ Override

Spec == Init /\ [][Next]_vars

-----------------------------------------------------------------------------
(* generateSensitivityAnalysis(base_inputs, min_rate, max_rate, step) *)

\* the base records of the sweeps: small figures, so that the 21 rates of the
\* default sweep stay within the arithmetic of the model checker
SweepBases ==
    [capacity : {Lit(0), Lit(1), Lit(2)}, energy_generation : {Lit(0), Lit(1000)},
     capex_per_mw : {Lit(0), Lit(100)}, opex_percent : {Lit(0), Lit(10)},
     interest_rate : {Lit(0), Lit(10)}, loan_tenure : {Lit(0), Lit(1)},
     project_lifetime : {Lit(0), Lit(1), Lit(2)}, discount_rate : {Lit(10)}]

\* the default range 5 .. 15 in steps of 0.5
DefaultRange == [min_rate |-> Lit(5), max_rate |-> Lit(15), step |-> Num(1, 2)]

\* a coarse range, and a range with max_rate below min_rate
CoarseRange == [min_rate |-> Lit(50), max_rate |-> Lit(150), step |-> Lit(50)]

EmptyRange == [min_rate |-> Lit(10), max_rate |-> Lit(5), step |-> Lit(1)]

\* a range whose step is negative, as typed into the step control
NegativeStepRange == [min_rate |-> Lit(5), max_rate |-> Lit(15), step |-> Lit(-5)]

SweepRanges == {DefaultRange, CoarseRange, EmptyRange, NegativeStepRange}

\* the passes of the sweep loop that are followed
MaxPasses == 21

\* the object pushed for one rate, from the result calc of the engine
PointOf(r, calc) == [rate |-> r, lcoe_kwh |-> calc.lcoe_kwh, lcoe_mwh |-> calc.lcoe_mwh]

\* one pass of the loop body: the engine result for the rate, and its point
SweepPoint(base_inputs, r) ==
    PointOf(r, calculateLCOE([base_inputs EXCEPT !.discount_rate = r]))

\* generateSensitivityAnalysis is entered: results = [], rate = min_rate
SweepInit ==
    /\ inputs \in SweepBases
    /\ range \in SweepRanges
    /\ (range \in {DefaultRange, NegativeStepRange} =>
            ~GT(inputs.project_lifetime, Lit(1)))
    /\ rate = range.min_rate
    /\ results = <<>>
    /\ pc = "sweeping"
    /\ result = NoResult
    /\ divided = {}
    /\ console = 0
    /\ NoTornado
    /\ NoWorkers
    /\ NoNpv
    /\ NoUI

\* one pass of the loop: rate <= max_rate
SweepPass ==
    /\ pc = "sweeping"
    /\ LE(rate, range.max_rate)
    /\ Len(results) < MaxPasses
    /\ results' = Append(results, SweepPoint(inputs, rate))
    /\ console' = console + LogLines(inputs)
    /\ rate' = Add(rate, range.step)
    /\ UNCHANGED <<inputs, pc, result, divided, range, tornadoVars, workerVars, npvVars, uiVars>>

\* the loop ends and the array is returned
SweepReturn ==
    /\ pc = "sweeping"
    /\ ~LE(rate, range.max_rate)
    /\ pc' = "swept"
    /\ UNCHANGED <<inputs, result, divided, console, sweepVars, tornadoVars, workerVars, npvVars, uiVars>>

SweepNext == SweepPass \/ SweepReturn

SweepSpec == SweepInit /\ [][SweepNext]_vars

-----------------------------------------------------------------------------
(* AdvancedCharts.plotTornado(base_inputs, variance_percent) *)

\* the parameters array, in its order
parameters ==
    << [name |-> "CAPEX per MW",  key |-> "capex_per_mw"],
       [name |-> "Annual Energy", key |-> "energy_generation"],
       [name |-> "Discount Rate", key |-> "discount_rate"],
       [name |-> "OPEX %",        key |-> "opex_percent"],
       [name |-> "Loan Tenure",   key |-> "loan_tenure"],
       [name |-> "Interest Rate", key |-> "interest_rate"] >>

\* (param.base_value * param.variance) / 100
VarianceAmount(base_inputs, param, variance_percent) ==
    Div(Mul(base_inputs[param.key], variance_percent), Lit(100))

\* inputs_low and inputs_high
InputsLow(base_inputs, param, variance_percent) ==
    [base_inputs EXCEPT ![param.key] =
        Sub(base_inputs[param.key], VarianceAmount(base_inputs, param, variance_percent))]

InputsHigh(base_inputs, param, variance_percent) ==
    [base_inputs EXCEPT ![param.key] =
        Add(base_inputs[param.key], VarianceAmount(base_inputs, param, variance_percent))]

\* the object pushed for a parameter, from impact_low and impact_high
ImpactOf(name, impact_low, impact_high) ==
    [name  |-> name,
     low   |-> MathMin(impact_low, impact_high),
     high  |-> MathMax(impact_low, impact_high),
     range |-> MathAbs(Sub(impact_high, impact_low))]

\* lcoe_kwh of the engine result for a record
LcoeOf(record) == calculateLCOE(record).lcoe_kwh

\* fault variant of compareFn: ascending by range
compareFnAscending(a, b) == Sub(MathAbs(a.range), MathAbs(b.range))

\* the comparator  (a, b) => Math.abs(b.range) - Math.abs(a.range)
compareFn(a, b) == Sub(MathAbs(b.range), MathAbs(a.range))

\* x put into a sorted array behind every element that does not sort after it
RECURSIVE SortedInsert(_, _)
SortedInsert(sorted, x) ==
    IF sorted = <<>> THEN <<x>>
    ELSE IF GT(compareFn(sorted[Len(sorted)], x), Lit(0))
         THEN Append(SortedInsert(SubSeq(sorted, 1, Len(sorted) - 1), x),
                     sorted[Len(sorted)])
         ELSE Append(sorted, x)

\* Array.prototype.sort with compareFn, for a comparator that is consistent
\* on the array: the stable sort
RECURSIVE StableSort(_)
StableSort(array) ==
    IF array = <<>> THEN <<>>
    ELSE SortedInsert(StableSort(SubSeq(array, 1, Len(array) - 1)), array[Len(array)])

\* the comparator yields a number for every pair of elements
Consistent(array) ==
    \A i, j \in 1 .. Len(array) : ~IsNaN(compareFn(array[i], array[j]))

\* the rearrangements of an array
Rearrangements(array) ==
    {[k \in 1 .. Len(array) |-> array[f[k]]] : f \in Permutations(1 .. Len(array))}

\* the arrays Array.prototype.sort may leave: the stable sort, or an
\* implementation-defined order when the comparator is not consistent
ArraySort(array) ==
    IF Consistent(array) THEN {StableSort(array)} ELSE Rearrangements(array)

\* the base records and variances of the diagrams
TornadoBases ==
    [capacity : {Lit(0), Lit(1), Lit(2)}, energy_generation : {Lit(0), Lit(200)},
     capex_per_mw : {Lit(100)}, opex_percent : {Lit(0), Lit(10)},
     interest_rate : {Lit(0), Lit(10)}, loan_tenure : TenureValues,
     project_lifetime : {Lit(n) : n \in 0 .. MaxLifetime},
     discount_rate : {Lit(0), Lit(100)}]

TornadoVariances == {Lit(20), Lit(50)}

\* the diagrams whose figures stay within the arithmetic of the model checker:
\* a discount rate other than 0 is varied by 50 percent, over one year at most
Plottable(base_inputs, variance_percent) ==
    \/ base_inputs.discount_rate = Lit(0)
    \/ /\ variance_percent = Lit(50)
       /\ ~GT(base_inputs.project_lifetime, Lit(1))

\* plotTornado is entered and the parameters array is laid out
TornadoInit ==
    /\ inputs \in TornadoBases
    /\ variance \in TornadoVariances
    /\ Plottable(inputs, variance)
    /\ impacts = <<>>
    /\ pc = "plotting"
    /\ result = NoResult
    /\ divided = {}
    /\ console = 0
    /\ NoSweep
    /\ NoWorkers
    /\ NoNpv
    /\ NoUI

\* one pass of the loop over the parameters (the first pass follows the
\* evaluation of the base record); lcoe holds base_lcoe, lcoe_low and lcoe_high
TornadoPass ==
    /\ pc = "plotting"
    /\ Len(impacts) < Len(parameters)
    /\ \E param \in {parameters[Len(impacts) + 1]} :
         \E inputs_low \in {InputsLow(inputs, param, variance)},
            inputs_high \in {InputsHigh(inputs, param, variance)} :
            \E lcoe \in {[record \in {inputs, inputs_low, inputs_high} |-> LcoeOf(record)]} :
               \E impact_low \in {Sub(lcoe[inputs_low], lcoe[inputs])},
                  impact_high \in {Sub(lcoe[inputs_high], lcoe[inputs])} :
                  impacts' = Append(impacts, ImpactOf(param.name, impact_low, impact_high))
    /\ console' = console + (IF impacts = <<>> THEN 3 ELSE 2) * LogLines(inputs)
    /\ UNCHANGED <<inputs, pc, result, divided, variance, sweepVars, workerVars, npvVars, uiVars>>

\* the loop is over: impacts.sort(compareFn), and the chart is drawn from it
TornadoSort ==
    /\ pc = "plotting"
    /\ Len(impacts) = Len(parameters)
    /\ impacts' \in ArraySort(impacts)
    /\ pc' = "ranked"
    /\ UNCHANGED <<inputs, result, divided, console, variance, sweepVars, workerVars, npvVars, uiVars>>

TornadoNext == TornadoPass \/ TornadoSort

TornadoSpec == TornadoInit /\ [][TornadoNext]_vars

-----------------------------------------------------------------------------
(* calculateLCOE step by step, run by workers whose steps interleave *)

Workers == {1, 2}

\* the calls started over all workers
MaxCalls == 3

\* the records the workers are given
WorkerInputs ==
    [capacity : {Lit(1)}, energy_generation : {Lit(200)}, capex_per_mw : {Lit(100)},
     opex_percent : {Lit(10)}, interest_rate : {Lit(10)}, loan_tenure : {Lit(1)},
     project_lifetime : {Lit(1), Lit(2)}, discount_rate : {Lit(100)}]

\* the frame of a worker that runs no invocation
IdleFrame == [pc |-> "idle"]

\* fault variant of FreshArray: one array serves every invocation
ReusedArray(arrays) == 1

\* the array  const cash_flows = []  creates: one that did not exist before
FreshArray(arrays) == Len(arrays) + 1

\* the heap after array id was made empty
WithEmptyArray(arrays, id) ==
    [k \in 1 .. (IF id > Len(arrays) THEN id ELSE Len(arrays)) |->
        IF k = id THEN <<>> ELSE arrays[k]]

\* the calls started so far
Started ==
    Cardinality(completed) + Cardinality({p \in Workers : frames[p].pc # "idle"})

\* another worker's step falls between the entry and the return of a call
Overlap(p) ==
    [q \in Workers |->
        IF q # p /\ frames[q].pc # "idle"
        THEN [frames[q] EXCEPT !.interleaved = TRUE]
        ELSE frames[q]]

\* the object returned, from the locals of the frame
ReturnedObject(frame, arrays) ==
    LET l        == frame.locals
        lcoe_mwh == LcoeMwh(l.capex, frame.npv_opex, l.total_energy)
    IN  [capex |-> l.capex, annual_opex |-> l.annual_opex, annual_emi |-> l.annual_emi,
         total_om |-> l.total_om, total_loan |-> l.total_loan,
         total_opex |-> l.total_opex, npv_opex |-> frame.npv_opex,
         total_energy |-> l.total_energy, lcoe_mwh |-> lcoe_mwh,
         lcoe_kwh |-> LcoeKwh(lcoe_mwh), cue |-> l.cue,
         cash_flows |-> arrays[frame.cash_flows]]

WorkerInit ==
    /\ frames = [p \in Workers |-> IdleFrame]
    /\ heap = <<>>
    /\ completed = {}
    /\ console = 0
    /\ inputs = NoResult
    /\ pc = "workers"
    /\ result = NoResult
    /\ divided = {}
    /\ NoSweep
    /\ NoTornado
    /\ NoNpv
    /\ NoUI

\* a worker enters calculateLCOE: Steps 1 to 4 and  const cash_flows = []
\* (the frame holds the locals that depend on the inputs and the configuration
\* alone; npv_opex and the array are those of the steps below)
Enter(p) ==
    /\ frames[p].pc = "idle"
    /\ Started < MaxCalls
    /\ \E given \in WorkerInputs :
         LET id == FreshArray(heap)
         IN  /\ frames' = [Overlap(p) EXCEPT ![p] =
                   [pc |-> "step5", call |-> Started + 1, inputs |-> given,
                    locals |-> Locals(given), year |-> 0,
                    cash_flows |-> id, npv_opex |-> NaN, interleaved |-> FALSE]]
             /\ heap' = WithEmptyArray(heap, id)
    /\ console' = console + 7
    /\ UNCHANGED completed

\* one pass of the cash-flow loop: cash_flows.push(om_year + emi_year)
Push(p) ==
    /\ frames[p].pc = "step5"
    /\ LT(Lit(frames[p].year), frames[p].inputs.project_lifetime)
    /\ LET frame == frames[p]
           l     == frame.locals
       IN  /\ heap' = [heap EXCEPT ![frame.cash_flows] =
                 Append(@, CashFlowOfYear(l.annual_opex, l.annual_emi,
                                          frame.inputs.loan_tenure, frame.year))]
           /\ frames' = [Overlap(p) EXCEPT ![p].year = frame.year + 1]
    /\ console' = console + 1
    /\ UNCHANGED completed

\* the loop ends; Step 6: calculateNPVlikeExcel(discount_rate, cash_flows)
Discount(p) ==
    /\ frames[p].pc = "step5"
    /\ ~LT(Lit(frames[p].year), frames[p].inputs.project_lifetime)
    /\ LET frame == frames[p]
           call  == calculateNPVlikeExcel(frame.inputs.discount_rate,
                                          heap[frame.cash_flows])
       IN  /\ heap' = [heap EXCEPT ![frame.cash_flows] = call.cash_flows]
           /\ frames' = [Overlap(p) EXCEPT ![p].npv_opex = call.npv, ![p].pc = "step7"]
    /\ UNCHANGED <<console, completed>>

\* Steps 7 to 9 and the return statement
Finish(p) ==
    /\ frames[p].pc = "step7"
    /\ completed' = completed \cup
           {[call |-> frames[p].call, inputs |-> frames[p].inputs,
             result |-> ReturnedObject(frames[p], heap),
             array |-> frames[p].cash_flows,
             interleaved |-> frames[p].interleaved]}
    /\ frames' = [Overlap(p) EXCEPT ![p] = IdleFrame]
    /\ UNCHANGED <<console, heap>>

WorkerStep(p) ==
    /\ (Enter(p) \/ Push(p) \/ Discount(p) \/ Finish(p))
    /\ UNCHANGED <<inputs, pc, result, divided, sweepVars, tornadoVars, npvVars, uiVars>>

WorkerNext == \E p \in Workers : WorkerStep(p)

WorkerSpec == WorkerInit /\ [][WorkerNext]_vars

-----------------------------------------------------------------------------
(* calculateNPVlikeExcel called repeatedly on one array *)

\* the calls that are followed
MaxNpvCalls == 2

\* the arrays of yearly flows and the discount rates of the repeated calls
NpvFlowValues == {Lit(0), Lit(100), Lit(200)}

NpvArrays ==
    {<<>>} \cup {<<a>> : a \in NpvFlowValues}
           \cup {<<a, b>> : a \in NpvFlowValues, b \in NpvFlowValues}

NpvRates == {Lit(0), Lit(10), Lit(100)}

NpvInit ==
    /\ inputs = NoResult
    /\ pc = "discounting"
    /\ result = NoResult
    /\ divided = {}
    /\ console = 0
    /\ NoSweep
    /\ NoTornado
    /\ NoWorkers
    /\ NoUI
    /\ npv_rate \in NpvRates
    /\ npv_flows \in NpvArrays
    /\ npvs = <<>>

\* one call calculateNPVlikeExcel(npv_rate, npv_flows): the value it returns
\* and the array as the call leaves it
NpvCall ==
    /\ pc = "discounting"
    /\ Len(npvs) < MaxNpvCalls
    /\ \E call \in {calculateNPVlikeExcel(npv_rate, npv_flows)} :
          /\ npvs' = Append(npvs, call.npv)
          /\ npv_flows' = call.cash_flows
    /\ UNCHANGED <<inputs, pc, result, divided, console, npv_rate,
                   sweepVars, tornadoVars, workerVars, uiVars>>

NpvNext == NpvCall

NpvSpec == NpvInit /\ [][NpvNext]_vars

-----------------------------------------------------------------------------
(* The form: UI.getInputs *)

\* The text of a field is the sequence of its characters. Leading white space
\* and exponents ("1e3") are not followed.
DigitChars == {"0", "1", "2", "3", "4", "5", "6", "7", "8", "9"}

DigitValue(c) ==
    CASE c = "0" -> 0 [] c = "1" -> 1 [] c = "2" -> 2 [] c = "3" -> 3 [] c = "4" -> 4
      [] c = "5" -> 5 [] c = "6" -> 6 [] c = "7" -> 7 [] c = "8" -> 8 [] c = "9" -> 9

\* the longest prefix of text made of digits
RECURSIVE DigitsPrefix(_)
DigitsPrefix(text) ==
    IF text = <<>> \/ Head(text) \notin DigitChars THEN <<>>
    ELSE <<Head(text)>> \o DigitsPrefix(Tail(text))

\* the number a sequence of digits writes
RECURSIVE DecimalValue(_)
DecimalValue(digits) ==
    IF digits = <<>> THEN 0
    ELSE 10 * DecimalValue(SubSeq(digits, 1, Len(digits) - 1))
           + DigitValue(digits[Len(digits)])

\* text without its sign, and the sign
Unsigned(text) == IF text # <<>> /\ Head(text) \in {"-", "+"} THEN Tail(text) ELSE text

SignOf(text) == IF text # <<>> /\ Head(text) = "-" THEN -1 ELSE 1

\* parseFloat: sign, digits, and a fraction after "."; NaN when there is no digit
parseFloat(text) ==
    LET body     == Unsigned(text)
        whole    == DigitsPrefix(body)
        rest     == SubSeq(body, Len(whole) + 1, Len(body))
        fraction == IF rest # <<>> /\ Head(rest) = "." THEN DigitsPrefix(Tail(rest))
                    ELSE <<>>
        scale    == 10 ^ Len(fraction)
    IN  IF whole = <<>> /\ fraction = <<>> THEN NaN
        ELSE Num(SignOf(text) * (DecimalValue(whole) * scale + DecimalValue(fraction)),
                 scale)

\* fault variant: the fraction of the text is kept
parseIntKeepingFraction(text) == parseFloat(text)

\* parseInt: sign and digits, stopping at the first other character; NaN when
\* there is no digit
parseInt(text) ==
    LET digits == DigitsPrefix(Unsigned(text))
    IN  IF digits = <<>> THEN NaN ELSE Lit(SignOf(text) * DecimalValue(digits))

\* value || fallback: NaN and 0 are falsy
OrElse(value, fallback) == IF IsNaN(value) \/ value = Lit(0) THEN fallback ELSE value

getInputs(fields) ==
    [capacity          |-> OrElse(parseFloat(fields.capacity), Lit(0)),
     energy_generation |-> OrElse(parseFloat(fields.energy_generation), Lit(0)),
     capex_per_mw      |-> OrElse(parseFloat(fields.capex_per_mw), Lit(0)),
     opex_percent      |-> OrElse(parseFloat(fields.opex_percent), Lit(0)),
     interest_rate     |-> OrElse(parseFloat(fields.interest_rate), Lit(0)),
     loan_tenure       |-> OrElse(parseInt(fields.loan_tenure), Lit(1)),
     project_lifetime  |-> OrElse(parseInt(fields.project_lifetime), Lit(1)),
     discount_rate     |-> OrElse(parseFloat(fields.discount_rate), Lit(0))]

\* what can be typed into a field: nothing, letters, and numbers with and
\* without sign and fraction
FormEntries ==
    {<<>>, <<"a", "b", "c">>, <<"0">>, <<"1">>, <<"2">>, <<"-", "1">>,
     <<"2", ".", "5">>, <<"0", ".", "5">>, <<"-", "2", ".", "5">>}

FewEntries == {<<>>, <<"0">>, <<"2", ".", "5">>}

FormStates ==
    [capacity : FormEntries, energy_generation : FewEntries,
     capex_per_mw : {<<>>, <<"1">>}, opex_percent : {<<"a", "b", "c">>, <<"-", "1">>},
     interest_rate : {<<"0">>, <<"0", ".", "5">>}, loan_tenure : FormEntries,
     project_lifetime : FormEntries, discount_rate : FewEntries]

FormInit ==
    /\ inputs = NoResult
    /\ pc = "form"
    /\ result = NoResult
    /\ divided = {}
    /\ console = 0
    /\ NoSweep
    /\ NoTornado
    /\ NoWorkers
    /\ NoNpv
    /\ form \in FormStates
    /\ lastResults = <<>>
    /\ autoUpdateCharts = FALSE
    /\ outputs = <<>>
    /\ shown = <<>>
    /\ charts = <<>>
    /\ live = <<>>
    /\ download = "none"

\* UI.getInputs reads the form
GetInputs ==
    /\ pc = "form"
    /\ pc' = "read"
    /\ inputs' = getInputs(form)
    /\ UNCHANGED <<result, divided, console, sweepVars, tornadoVars, workerVars, npvVars,
                   uiVars>>

FormNext == GetInputs

FormSpec == FormInit /\ [][FormNext]_vars

-----------------------------------------------------------------------------
(* The page: UI.updateResults, the chart updates, the CSV export *)

\* UI.lastResults before the first calculation
null == [null |-> TRUE]

\* a view nothing has been drawn into
NotDrawn == [drawn |-> FALSE]

\* the views of the page: the discount-rate sensitivity chart, the tornado
\* diagram, the grid heatmap and the range charts with their table
Views == {"sensitivity", "tornado", "heatmap", "ranges"}

\* the chart slots of Charts.charts, AdvancedCharts.charts and RangeCharts.charts
ChartsSlots == {"sensibilityDiscount", "sensibilityCapex", "sensibilityEnergy", "waterfall"}

AdvancedChartsSlots == {"tornado", "heatmap"}

RangeChartsSlots == {"parametersCombo", "capexRange", "energyRange", "discountRange"}

Slots == ChartsSlots \cup AdvancedChartsSlots \cup RangeChartsSlots

Modules == {ChartsSlots, AdvancedChartsSlots, RangeChartsSlots}

\* the slot or slots a view is drawn into (the grid heatmap is drawn into a
\* container of the page, not into a chart)
SlotsOf(view) ==
    CASE view = "sensitivity" -> {"sensibilityDiscount"}
      [] view = "tornado"     -> {"tornado"}
      [] view = "heatmap"     -> {}
      [] view = "ranges"      -> RangeChartsSlots

\* fault variant: the instance held in the slot is not destroyed
AfterDestroySkipped(count, held) == count

\* if (slot) slot.destroy(): the live instances of a slot after it
AfterDestroy(count, held) == IF held # "null" THEN count - 1 ELSE count

\* the instances and the slots after the plot functions of the views drawn:
\* each destroys the instance its slot holds and stores a new Chart there
LiveAfterPlot(drawn) ==
    [slot \in Slots |->
        IF \E view \in drawn : slot \in SlotsOf(view)
        THEN AfterDestroy(live[slot], charts[slot]) + 1
        ELSE live[slot]]

ChartsAfterPlot(drawn) ==
    [slot \in Slots |->
        IF \E view \in drawn : slot \in SlotsOf(view) THEN "chart" ELSE charts[slot]]

\* the views in drawn are drawn from the record given
Draw(drawn, given) ==
    /\ shown' = [view \in Views |-> IF view \in drawn THEN given ELSE shown[view]]
    /\ live' = LiveAfterPlot(drawn)
    /\ charts' = ChartsAfterPlot(drawn)

\* fault variant: the range charts are left out
ViewsOfUpdateAllChartsWithoutRanges == {"tornado", "heatmap"}

\* what UI.updateAllCharts draws: plotTornado, UI.updateHeatmap and
\* UI.updateRangeAnalysis
ViewsOfUpdateAllCharts == {"tornado", "heatmap", "ranges"}

\* the figures UI.updateResults writes to the output fields
OutputFields(computed) ==
    [opex_calculated |-> computed.annual_opex, emi_calculated |-> computed.annual_emi,
     cue_calculated |-> computed.cue, lcoe_mwh |-> computed.lcoe_mwh,
     lcoe_kwh |-> computed.lcoe_kwh, capex |-> computed.capex,
     om |-> computed.total_om, loan |-> computed.total_loan,
     npv |-> computed.npv_opex, energy |-> computed.total_energy,
     cue_percent |-> computed.cue]

\* UI.updateResults on a form holding fields
UpdateResults(fields) ==
    \E given \in {getInputs(fields)} :
       \E computed \in {calculateLCOE(given)} :
          /\ lastResults' = [inputs |-> given, results |-> computed]
          /\ outputs' = OutputFields(computed)
          /\ IF autoUpdateCharts
             THEN Draw(ViewsOfUpdateAllCharts, given)
             ELSE UNCHANGED <<shown, charts, live>>

\* UI.generateCSVContent: null, or the cached inputs and figures with one row
\* per cash flow, numbered from 1
generateCSVContent ==
    IF lastResults = null THEN null
    ELSE [inputs |-> lastResults.inputs,
          results |-> [key \in DOMAIN lastResults.results \ {"cash_flows"} |->
                          lastResults.results[key]],
          rows |-> [index \in 1 .. Len(lastResults.results.cash_flows) |->
                       <<index, lastResults.results.cash_flows[index]>>]]

\* fault variant: a link is created whatever the cache holds
DownloadOutcomeUnguarded(cache, content) == "link"

\* UI.downloadCSV: an alert when there is no cached result or no content, a
\* clicked download link otherwise
DownloadOutcome(cache, content) ==
    IF cache = null \/ content = null THEN "alert" ELSE "link"

\* the defaults of the form and the entries typed over them (small stand-ins
\* for UI.defaults, whose figures exceed the integers followed here)
UIDefaults ==
    [capacity |-> <<"1">>, energy_generation |-> <<"2", "0", "0">>,
     capex_per_mw |-> <<"1", "0", "0">>, opex_percent |-> <<"1", "0">>,
     interest_rate |-> <<"1", "0">>, loan_tenure |-> <<"1">>,
     project_lifetime |-> <<"2">>, discount_rate |-> <<"0">>]

UIEntries ==
    [capacity |-> {<<"1">>, <<"2">>}, energy_generation |-> {<<"2", "0", "0">>},
     capex_per_mw |-> {<<"1", "0", "0">>}, opex_percent |-> {<<"1", "0">>},
     interest_rate |-> {<<"1", "0">>}, loan_tenure |-> {<<"1">>, <<>>, <<"2", ".", "5">>},
     project_lifetime |-> {<<"2">>}, discount_rate |-> {<<"0">>}]

UIInit ==
    /\ inputs = NoResult
    /\ pc = "loading"
    /\ result = NoResult
    /\ divided = {}
    /\ console = 0
    /\ NoSweep
    /\ NoTornado
    /\ NoWorkers
    /\ NoNpv
    /\ form = UIDefaults
    /\ lastResults = null
    /\ autoUpdateCharts \in BOOLEAN
    /\ outputs = <<>>
    /\ shown = [view \in Views |-> NotDrawn]
    /\ charts = [slot \in Slots |-> "null"]
    /\ live = [slot \in Slots |-> 0]
    /\ download = "none"

uiFrame == <<inputs, result, divided, console, sweepVars, tornadoVars, workerVars, npvVars>>

\* the handlers that end in UI.updateResults: initializeApp on
\* DOMContentLoaded, the listener of an 'input' event, and UI.resetForm
Handlers == {"initializeApp", "input", "resetForm"}

\* when a handler can run
Runs(handler) ==
    CASE handler = "initializeApp" -> pc = "loading"
      [] handler = "input"         -> pc = "ready"
      [] handler = "resetForm"     -> TRUE

\* the form a handler calls UI.updateResults on: as it is, with one field
\* typed over, or with every field set to its default
FormsAfter(handler) ==
    CASE handler = "initializeApp" -> {form}
      [] handler = "input" ->
            UNION {{[form EXCEPT ![id] = text] : text \in UIEntries[id] \ {form[id]}} :
                      id \in DOMAIN UIEntries}
      [] handler = "resetForm" -> {UIDefaults}

Handle(handler) ==
    /\ Runs(handler)
    /\ form' \in FormsAfter(handler)
    /\ pc' = IF handler = "initializeApp" THEN "ready" ELSE pc
    /\ UpdateResults(form')
    /\ UNCHANGED <<autoUpdateCharts, download, uiFrame>>

\* one of the three handlers runs
Recalculate == \E handler \in Handlers : Handle(handler)

InitializeApp == Handle("initializeApp")

InputEvent == Handle("input")

ResetForm == Handle("resetForm")

\* UI.updateSensitivityChart (the sensitivity controls at their defaults)
UpdateSensitivityChart ==
    /\ Draw({"sensitivity"}, getInputs(form))
    /\ UNCHANGED <<pc, form, lastResults, autoUpdateCharts, outputs, download, uiFrame>>

\* a chart update that reads the cache: nothing happens while it is null
DrawFromCache(drawn) ==
    /\ IF lastResults = null
       THEN UNCHANGED <<shown, charts, live>>
       ELSE Draw(drawn, lastResults.inputs)
    /\ UNCHANGED <<pc, form, lastResults, autoUpdateCharts, outputs, download, uiFrame>>

UpdateTornadoChart == DrawFromCache({"tornado"})

UpdateRangeAnalysis == DrawFromCache({"ranges"})

UpdateHeatmap == DrawFromCache({"heatmap"})

UpdateAllCharts == DrawFromCache(ViewsOfUpdateAllCharts)

GenerateRangeAnalysis == DrawFromCache({"ranges"})

\* UI.switchTab: the tab's view is drawn
SwitchTab ==
    \E tab_name \in {"sensitivity", "heatmap", "ranges", "export"} :
       CASE tab_name = "sensitivity" -> UpdateTornadoChart
         [] tab_name = "heatmap"     -> UpdateHeatmap
         [] tab_name = "ranges"      -> GenerateRangeAnalysis
         [] OTHER                    -> UNCHANGED vars

\* UI.downloadCSV
DownloadCSV ==
    /\ download' = DownloadOutcome(lastResults, generateCSVContent)
    /\ UNCHANGED <<pc, form, lastResults, autoUpdateCharts, outputs, shown, charts, live,
                   uiFrame>>

\* destroyAllCharts of one of the three chart modules
DestroyAllCharts ==
    /\ \E module \in Modules :
          /\ live' = [slot \in Slots |->
                         IF slot \in module /\ charts[slot] # "null"
                         THEN live[slot] - 1 ELSE live[slot]]
          /\ charts' = [slot \in Slots |-> IF slot \in module THEN "null" ELSE charts[slot]]
          /\ shown' = [view \in Views |->
                          IF SlotsOf(view) \cap module # {} THEN NotDrawn ELSE shown[view]]
    /\ UNCHANGED <<pc, form, lastResults, autoUpdateCharts, outputs, download, uiFrame>>

UINext ==
    \/ Recalculate
    \/ UpdateSensitivityChart
    \/ UpdateTornadoChart
    \/ UpdateRangeAnalysis
    \/ UpdateHeatmap
    \/ UpdateAllCharts
    \/ GenerateRangeAnalysis
    \/ SwitchTab
    \/ DownloadCSV
    \/ DestroyAllCharts

UISpec == UIInit /\ [][UINext]_vars

-----------------------------------------------------------------------------
(* Vocabulary of the properties *)

Returned == pc = "returned"

\* the figures of a result object
Figures ==
    {"capex", "annual_opex", "annual_emi", "total_om", "total_loan", "total_opex",
     "npv_opex", "total_energy", "lcoe_mwh", "lcoe_kwh", "cue", "cash_flows"}

\* r carries computed cost or energy figures
CarriesFigures(r) == Figures \cap DOMAIN r # {}

\* r carries a field besides its figures
CarriesFlag(r) == DOMAIN r \ Figures # {}

\* the number of project years of the current inputs (0 when project_lifetime <= 0)
ProjectYears == Passes(inputs.project_lifetime, 0)

\* annual_opex * 1.05^i, plus annual_emi while i < loan_tenure
YearFlow(i) ==
    Add(Mul(result.annual_opex, Pow(Num(105, 100), i)),
        IF LT(Lit(i), inputs.loan_tenure) THEN result.annual_emi ELSE Lit(0))

\* 1 + discount_rate/100
DiscountBase == Add(Lit(1), Div(inputs.discount_rate, Lit(100)))

\* the sum over i = 0 .. n-1 of YearFlow(i) / DiscountBase^(i + periods)
RECURSIVE DiscountedSum(_, _)
DiscountedSum(n, periods) ==
    IF n = 0 THEN Lit(0)
    ELSE Add(DiscountedSum(n - 1, periods),
             Div(YearFlow(n - 1), Pow(DiscountBase, n - 1 + periods)))

\* the sum over i = 0 .. n-1 of YearFlow(i)
RECURSIVE PlainSum(_)
PlainSum(n) == IF n = 0 THEN Lit(0) ELSE Add(PlainSum(n - 1), YearFlow(n - 1))

NonZeroFinite(x) == IsFinite(x) /\ x # Lit(0)

\* the constraints of the ProjectInputs table: on capacity, on project_lifetime,
\* on energy_generation, and on the cost and financing fields
CapacityValid == GT(inputs.capacity, Lit(0))

LifetimeValid == ~LT(inputs.project_lifetime, Lit(1))

EnergyValid == GT(inputs.energy_generation, Lit(0))

CostsValid ==
    /\ GT(inputs.capex_per_mw, Lit(0))
    /\ ~LT(inputs.opex_percent, Lit(0))
    /\ ~LT(inputs.interest_rate, Lit(0))
    /\ ~LT(inputs.loan_tenure, Lit(0))
    /\ ~LT(inputs.discount_rate, Lit(0))

WellFormed == CapacityValid /\ LifetimeValid /\ EnergyValid /\ CostsValid

-----------------------------------------------------------------------------
(* Properties *)

\* C1: for project_lifetime >= 1 the cash_flows array of the returned result
\* has exactly project_lifetime entries (stated for well-formed inputs, on
\* which it already fails).
C1_CashFlowLength ==
    (Returned /\ WellFormed /\ ProjectYears >= 1) =>
        Len(result.cash_flows) = ProjectYears

C3_CashFlowEntries ==
    (Returned /\ WellFormed) =>
        \A i \in 0 .. ProjectYears - 1 :
            /\ i + 1 <= Len(result.cash_flows)
            /\ result.cash_flows[i + 1] = YearFlow(i)

\* C4: whenever total_energy > 0 the returned lcoe_mwh is
\* (capex + npv_opex) / total_energy.
C4_LevelizedCost ==
    (Returned /\ GT(result.total_energy, Lit(0))) =>
        /\ result.lcoe_mwh = Div(Add(result.capex, result.npv_opex), result.total_energy)
        /\ (IsFinite(result.total_energy) /\ IsFinite(result.capex)) =>
               Mul(result.lcoe_mwh, result.total_energy)
                   = Add(result.capex, result.npv_opex)

\* C4 witness: a returned result with positive finite energy and a non-zero cost.
C4_Witness ==
    /\ Returned
    /\ GT(result.total_energy, Lit(0))
    /\ IsFinite(result.total_energy)
    /\ NonZeroFinite(result.capex)
    /\ NonZeroFinite(result.npv_opex)
    /\ NonZeroFinite(result.lcoe_mwh)

\* C5: a call with capacity <= 0 yields an error before any division by
\* capacity; it returns no computed cost or energy figures (stated for inputs
\* whose other fields are valid, on which it already fails).
C5_CapacityRejected ==
    (Returned /\ ~CapacityValid /\ LifetimeValid /\ EnergyValid /\ CostsValid) =>
        /\ ~CarriesFigures(result)
        /\ "capacity" \notin divided

\* C6: a call with project_lifetime <= 0 reports a validation failure and
\* returns no result record with totals and an LCOE value (stated for inputs
\* whose other fields are valid, on which it already fails).
C6_LifetimeRejected ==
    (Returned /\ ~GT(inputs.project_lifetime, Lit(0))
              /\ CapacityValid /\ EnergyValid /\ CostsValid) =>
        ~CarriesFigures(result)

\* C7: when total_energy is 0 or less (or not a number), lcoe_mwh = 0 and
\* lcoe_kwh = 0 and nothing was divided by total_energy.
C7_ZeroEnergySentinel ==
    (Returned /\ ~GT(result.total_energy, Lit(0))) =>
        /\ result.lcoe_mwh = Lit(0)
        /\ result.lcoe_kwh = Lit(0)
        /\ "total_energy" \notin divided

\* C7 witness: a returned result with negative total energy and a non-zero cost.
C7_Witness ==
    /\ Returned
    /\ LT(result.total_energy, Lit(0))
    /\ NonZeroFinite(Add(result.capex, result.npv_opex))
    /\ result.lcoe_mwh = Lit(0)

\* C8: a result whose total_energy is <= 0 carries a flag in the returned
\* record that tells it from a result whose LCOE was computed (stated for
\* inputs with a valid capacity, lifetime and costs, on which it already fails).
C8_DegenerateFlagged ==
    (Returned /\ ~GT(result.total_energy, Lit(0))
              /\ CapacityValid /\ LifetimeValid /\ CostsValid) =>
        CarriesFlag(result)

\* C9: with discount_rate = 0 npv_opex is the undiscounted sum of the yearly
\* flows, with interest_rate = 0 the financing payment is 0, and neither value
\* is undefined (stated for inputs whose fields other than capacity are valid).
C9_ZeroRates ==
    (Returned /\ LifetimeValid /\ EnergyValid /\ CostsValid) =>
        /\ inputs.discount_rate = Lit(0) =>
               /\ result.npv_opex = PlainSum(ProjectYears)
               /\ ~IsNaN(result.npv_opex)
        /\ inputs.interest_rate = Lit(0) => result.annual_emi = Lit(0)

\* C10: in every returned result lcoe_kwh = lcoe_mwh / 1000.
C10_UnitConsistency ==
    Returned =>
        /\ result.lcoe_kwh = Div(result.lcoe_mwh, Lit(1000))
        /\ IsFinite(result.lcoe_mwh) =>
               Mul(result.lcoe_kwh, Lit(1000)) = result.lcoe_mwh

\* C10 witness: a returned result whose LCOE was computed and is not zero.
C10_Witness ==
    /\ Returned
    /\ NonZeroFinite(result.lcoe_mwh)
    /\ NonZeroFinite(result.lcoe_kwh)


\* C11: in every returned result total_opex = total_om + total_loan.
C11_TotalCost ==
    Returned => result.total_opex = Add(result.total_om, result.total_loan)

\* C11 witness: a returned result with a non-zero operating total and a
\* non-zero loan total.
C11_Witness ==
    /\ Returned
    /\ NonZeroFinite(result.total_om)
    /\ NonZeroFinite(result.total_loan)
    /\ result.total_opex # result.total_om

C13_SimpleInterest ==
    (Returned /\ LifetimeValid /\ EnergyValid /\ CostsValid) =>
        /\ result.annual_emi = Div(Mul(result.capex, inputs.interest_rate), Lit(100))
        /\ inputs.loan_tenure = Lit(0) =>
               /\ result.total_loan = Lit(0)
               /\ \A i \in 0 .. ProjectYears - 1 :
                      result.cash_flows[i + 2]
                          = Mul(result.annual_opex, Pow(Num(105, 100), i))

\* the operating component of the flow assembled for year i: the entry the
\* flow has in the returned array, less the financing payment of that year
OperatingComponent(i) ==
    Sub(result.cash_flows[i + 2],
        IF LT(Lit(i), inputs.loan_tenure) THEN result.annual_emi ELSE Lit(0))

\* C14: for opex_percent > 0 and a positive (finite) total CAPEX the operating
\* component annual_opex * 1.05^i of the yearly flows is strictly increasing in i.
C14_EscalationMonotone ==
    (Returned /\ GT(inputs.opex_percent, Lit(0))
              /\ GT(result.capex, Lit(0)) /\ IsFinite(result.capex)) =>
        \A i \in 0 .. ProjectYears - 1 :
            /\ OperatingComponent(i) = Mul(result.annual_opex, Pow(Num(105, 100), i))
            /\ i + 1 < ProjectYears =>
                   LT(OperatingComponent(i), OperatingComponent(i + 1))

\* C14 witness: a returned result with at least two project years, a positive
\* opex_percent and a positive finite CAPEX.
C14_Witness ==
    /\ Returned
    /\ ProjectYears >= 2
    /\ GT(inputs.opex_percent, Lit(0))
    /\ GT(result.capex, Lit(0))
    /\ IsFinite(result.capex)
    /\ LT(OperatingComponent(0), OperatingComponent(1))

\* (energy_generation / capacity) * 0.995^i
EnergyTerm(i) ==
    Mul(Div(inputs.energy_generation, inputs.capacity), Pow(Num(995, 1000), i))

\* the sum over i = 0 .. n-1 of EnergyTerm(i)
RECURSIVE EnergySum(_)
EnergySum(n) == IF n = 0 THEN Lit(0) ELSE Add(EnergySum(n - 1), EnergyTerm(n - 1))

\* C15: the yearly energy the engine sums is (energy_generation / capacity) *
\* 0.995^i for i = 0 .. project_lifetime-1, strictly decreasing in i when
\* energy_generation > 0 and capacity > 0, and total_energy is its sum.
C15_EnergySeries ==
    Returned =>
        /\ result.total_energy = EnergySum(ProjectYears)
        /\ \A i \in 0 .. ProjectYears - 1 :
               /\ DegradedEnergy(Div(inputs.energy_generation, inputs.capacity), i)
                      = EnergyTerm(i)
               /\ (/\ GT(inputs.energy_generation, Lit(0))
                   /\ GT(inputs.capacity, Lit(0))
                   /\ i + 1 < ProjectYears) =>
                      GT(DegradedEnergy(Div(inputs.energy_generation, inputs.capacity), i),
                         DegradedEnergy(Div(inputs.energy_generation, inputs.capacity),
                                        i + 1))

\* C15 witness: a returned result with at least two project years, positive
\* energy_generation and capacity, and a total above the first year's energy.
C15_Witness ==
    /\ Returned
    /\ ProjectYears >= 2
    /\ GT(inputs.energy_generation, Lit(0))
    /\ GT(inputs.capacity, Lit(0))
    /\ GT(result.total_energy, EnergyTerm(0))

\* the sweep has returned its array
Swept == pc = "swept"

\* C16: for valid base inputs the lcoe_kwh values of
\* generateSensitivityAnalysis(base, 5, 15, 0.5), in order of increasing
\* discount rate, are monotonically non-decreasing.
C16_SweepNonDecreasing ==
    (Swept /\ range = DefaultRange /\ WellFormed) =>
        \A k \in 1 .. Len(results) - 1 :
            /\ LT(results[k].rate, results[k + 1].rate)
            /\ LE(results[k].lcoe_kwh, results[k + 1].lcoe_kwh)

\* plotTornado has sorted its impacts
Ranked == pc = "ranked"

\* the place a parameter name has in the parameters array
InputOrder(name) == CHOOSE p \in 1 .. Len(parameters) : parameters[p].name = name

\* |LCOE(value + delta) - LCOE(value - delta)| of a parameter
Spread(param) ==
    MathAbs(Sub(LcoeOf(InputsHigh(inputs, param, variance)),
                LcoeOf(InputsLow(inputs, param, variance))))

\* every spread is a number
SpreadsFinite == \A p \in 1 .. Len(parameters) : IsFinite(Spread(parameters[p]))

\* C17: plotTornado ranks the six parameters by their absolute spread
\* |LCOE(value+delta) - LCOE(value-delta)| in descending order, and parameters
\* of equal spread keep their input order (stated for spreads that are numbers).
C17_TornadoRanking ==
    (Ranked /\ SpreadsFinite) =>
        /\ Len(impacts) = Len(parameters)
        /\ \A p \in 1 .. Len(parameters) :
               \E k \in 1 .. Len(impacts) : impacts[k].name = parameters[p].name
        /\ \A k \in 1 .. Len(impacts) :
               impacts[k].range = Spread(parameters[InputOrder(impacts[k].name)])
        /\ \A k \in 1 .. Len(impacts) - 1 :
               \/ GT(impacts[k].range, impacts[k + 1].range)
               \/ /\ impacts[k].range = impacts[k + 1].range
                  /\ InputOrder(impacts[k].name) < InputOrder(impacts[k + 1].name)

\* C17 witness: a ranking that differs from the input order, with two
\* neighbours of different spread and two of equal spread.
C17_Witness ==
    /\ Ranked
    /\ SpreadsFinite
    /\ impacts[1].name # parameters[1].name
    /\ \E k \in 1 .. Len(impacts) - 1 : GT(impacts[k].range, impacts[k + 1].range)
    /\ \E k \in 1 .. Len(impacts) - 1 :
           /\ impacts[k].range = impacts[k + 1].range
           /\ GT(impacts[k].range, Lit(0))

\* C18: in any sequence of calls, two calls with equal input records return
\* equal results in every field (cash_flows included), whatever calls were
\* made before or between them.
C18_HistoryIndependent ==
    \A a, b \in completed : a.inputs = b.inputs => a.result = b.result

\* C18 witness: two returned calls with equal inputs, and a call with other
\* inputs returned between them.
C18_Witness ==
    \E a, b, c \in completed :
        /\ a.call < c.call
        /\ c.call < b.call
        /\ a.inputs = b.inputs
        /\ c.inputs # a.inputs
        /\ a.result = b.result

\* C19: invocations whose steps interleave return what they return when run
\* one after the other, and no invocation writes what another reads: each
\* returned array is still as it was returned, and no two calls share one.
C19_InterleavingFree ==
    \A a \in completed :
        /\ a.result = calculateLCOE(a.inputs)
        /\ heap[a.array] = a.result.cash_flows
        /\ \A b \in completed : a.call # b.call => a.array # b.array

\* C19 witness: two returned calls, of different inputs, whose steps were
\* interleaved.
C19_Witness ==
    \E a, b \in completed :
        /\ a.call # b.call
        /\ a.interleaved
        /\ b.interleaved
        /\ a.inputs.project_lifetime # b.inputs.project_lifetime
        /\ a.result = calculateLCOE(a.inputs)

\* C20: calculateLCOE has no effect outside its return value: it leaves the
\* inputs record as it was given, and it writes no log output (stated for
\* well-formed inputs, on which it already fails).
C20_NoOutsideEffect ==
    [][(Return /\ WellFormed) => (inputs' = inputs /\ console' = console)]_vars

\* C21: every call of the public surface terminates. The loops of
\* calculateLCOE make project_lifetime passes; the loop of
\* generateSensitivityAnalysis ends because every pass brings rate strictly
\* closer to max_rate, for every min_rate, max_rate and step the sensitivity
\* controls can pass (stated for well-formed base inputs).
C21_Terminates ==
    [][(SweepPass /\ WellFormed) =>
           /\ GT(rate', rate)
           /\ LogLines(inputs) = 7 + ProjectYears]_vars

\* C22: the returned cue is energy_generation / (capacity * 8760), from the
\* energy_generation as given (not divided by capacity first), for every
\* capacity other than 0; a value above 1 is returned as it is; capacity 0
\* gives cue 0.
C22_Utilization ==
    Returned =>
        /\ inputs.capacity # Lit(0) =>
              Mul(result.cue, Mul(inputs.capacity, Lit(hours_in_year)))
                  = inputs.energy_generation
        /\ (GT(inputs.capacity, Lit(0)) /\
            GT(inputs.energy_generation, Mul(inputs.capacity, Lit(hours_in_year)))) =>
              GT(result.cue, Lit(1))
        /\ inputs.capacity = Lit(0) => result.cue = Lit(0)

\* C22 witness: a returned utilization above 1 for capacity 2, where dividing
\* the normalised energy would give another value.
C22_Witness ==
    /\ Returned
    /\ inputs.capacity = Lit(2)
    /\ GT(result.cue, Lit(1))
    /\ result.cue # Div(Div(inputs.energy_generation, inputs.capacity),
                        Mul(inputs.capacity, Lit(hours_in_year)))

\* the result of calculateLCOE for the current inputs with another capacity
WithCapacity(c) == calculateLCOE([inputs EXCEPT !.capacity = c])

RECURSIVE SumOf(_)
SumOf(flows) ==
    IF flows = <<>> THEN Lit(0) ELSE Add(Head(flows), SumOf(Tail(flows)))

\* C25: the undiscounted sum of the yearly cash flows of a returned result
\* equals its total_opex = total_om + annual_emi * loan_tenure, also when
\* loan_tenure exceeds project_lifetime (stated for well-formed inputs).
C25_FlowsSumToTotalOpex ==
    (Returned /\ WellFormed) =>
        /\ result.total_opex
               = Add(result.total_om, Mul(result.annual_emi, inputs.loan_tenure))
        /\ SumOf(result.cash_flows) = result.total_opex

\* C27: calculateNPVlikeExcel leaves the array passed to it as it was, and a
\* second call with the same rate on the same array returns the value of the
\* first.
C27_ArrayUnchanged ==
    [][NpvCall =>
           /\ npv_flows' = npv_flows
           /\ npvs # <<>> => npvs'[Len(npvs')] = npvs[Len(npvs)]]_vars

\* UI.getInputs has returned the record read from the form
Read == pc = "read"

\* the number an entry of the form writes (NaN for an entry that writes none)
EnteredValue(text) ==
    CASE text = <<"0">> -> Lit(0)
      [] text = <<"1">> -> Lit(1)
      [] text = <<"2">> -> Lit(2)
      [] text = <<"-", "1">> -> Lit(-1)
      [] text = <<"2", ".", "5">> -> Num(5, 2)
      [] text = <<"0", ".", "5">> -> Num(1, 2)
      [] text = <<"-", "2", ".", "5">> -> Num(-5, 2)
      [] OTHER -> NaN

\* x without its fraction
Truncated(x) == IF IsFinite(x) THEN Lit(Sgn(x[1]) * (Abs(x[1]) \div x[2])) ELSE x

YearFields == {"loan_tenure", "project_lifetime"}

\* an empty, non-numeric or 0 entry becomes the fallback, any other the value
Defaulted(value, fallback) ==
    IF IsNaN(value) \/ value = Lit(0) THEN fallback ELSE value

\* every field of the record is a number, and neither year field is 0
NumericRecord ==
    /\ \A id \in DOMAIN inputs : IsFinite(inputs[id])
    /\ \A id \in YearFields : inputs[id] # Lit(0)

Ready == pc = "ready"

\* the record UI.getInputs reads from the form as it is now
CurrentInputs == getInputs(form)

\* the views that are drawn from UI.lastResults
CacheViews == {"tornado", "heatmap", "ranges"}

\* a view that has been drawn shows the current inputs
UpToDate(view) == shown[view] # NotDrawn => shown[view] = CurrentInputs

\* C23: with UI.autoUpdateCharts true, after every handler that runs
\* UI.updateResults (page load, input event, reset) every view that is on
\* display - tornado, heatmap, range charts and the discount-rate sensitivity
\* chart - shows the current inputs; with UI.autoUpdateCharts false the handler
\* draws no view.
C23_ChartsFollowInputs ==
    [][Recalculate =>
           IF autoUpdateCharts
           THEN \A view \in Views :
                   shown'[view] # NotDrawn => shown'[view] = getInputs(form')
           ELSE UNCHANGED <<shown, charts, live>>]_vars

\* C24: no slot of Charts.charts, AdvancedCharts.charts or RangeCharts.charts
\* ever has more than one chart instance that was created and not destroyed,
\* and a slot that is null has none.
C24_OneLiveChartPerSlot ==
    \A slot \in Slots :
        /\ live[slot] <= 1
        /\ charts[slot] = "null" => live[slot] = 0

\* C24 witness: the tornado diagram has been drawn at page load and again
\* after an input event, its slot holds the one live instance, and the range
\* charts drawn at page load have been destroyed by destroyAllCharts.
C24_Witness ==
    /\ Ready
    /\ autoUpdateCharts
    /\ shown["tornado"] # NotDrawn
    /\ shown["tornado"] # getInputs(UIDefaults)
    /\ charts["tornado"] = "chart"
    /\ live["tornado"] = 1
    /\ \A slot \in RangeChartsSlots : charts[slot] = "null" /\ live[slot] = 0

\* once the page is initialized UI.lastResults holds the record read from the
\* form as it is now and the result of calculateLCOE for it, and the CSV
\* content is made from this pair
CacheCurrent ==
    /\ lastResults # null
    /\ lastResults.inputs = CurrentInputs
    /\ lastResults.results = calculateLCOE(CurrentInputs)
    /\ outputs = OutputFields(lastResults.results)
    /\ generateCSVContent # null
    /\ generateCSVContent.inputs = CurrentInputs
    /\ Len(generateCSVContent.rows) = Len(lastResults.results.cash_flows)

\* C28 (as claimed): after UI.updateResults UI.lastResults is non-null and
\* holds the current form values and their result, and the tornado, heatmap
\* and range views and the CSV export never show figures of other inputs.
C28_CacheAndViewsCurrent ==
    Ready => (CacheCurrent /\ \A view \in CacheViews : UpToDate(view))

\* C28 (amended): the cache is current as above; the tornado, heatmap and
\* range views show the current inputs whenever UI.autoUpdateCharts is true,
\* and with it false a view shows the inputs it was last drawn from.
C28_CacheCurrentViewsIfAuto ==
    Ready => (CacheCurrent /\ (autoUpdateCharts => \A view \in CacheViews : UpToDate(view)))

\* C28 witness: after input events on a page with UI.autoUpdateCharts true
\* the form differs from its defaults, the three views are drawn and a CSV
\* file has been downloaded.
C28_Witness ==
    /\ Ready
    /\ autoUpdateCharts
    /\ CurrentInputs # getInputs(UIDefaults)
    /\ \A view \in CacheViews : shown[view] = CurrentInputs
    /\ download = "link"

\* C30: while UI.lastResults is null nothing has been drawn into the tornado,
\* heatmap and range views, no chart of AdvancedCharts or RangeCharts exists,
\* no output field is written, UI.generateCSVContent returns null, and
\* UI.downloadCSV has shown an alert and created no link.
C30_NothingWithoutResults ==
    lastResults = null =>
        /\ \A view \in CacheViews : shown[view] = NotDrawn
        /\ \A slot \in AdvancedChartsSlots \cup RangeChartsSlots :
              charts[slot] = "null" /\ live[slot] = 0
        /\ outputs = <<>>
        /\ generateCSVContent = null
        /\ download \in {"none", "alert"}

\* C30 witness: before the first calculation UI.downloadCSV has been called
\* and the sensitivity chart is the only view drawn.
C30_Witness ==
    /\ pc = "loading"
    /\ lastResults = null
    /\ download = "alert"
    /\ shown["sensitivity"] # NotDrawn

=============================================================================
